---- MODULE Spec2Model ----
\* Reverse-tunnel client: the Tunnel controller (open / connectToServer / close),
\* its pooled WebSocket channels, and the TunnelHTTP2Handler with its two
\* forwarders. Every callback of the single-threaded runtime is one atomic action.
EXTENDS Integers, Sequences, FiniteSets, TLC

\* ---------------------------------------------------------------- bounds
MaxCpus == 2
MaxCpusPool == 33
MaxCloseCalls == 2
MaxExchanges == 2
MaxDrops == 1
MaxDoneFrames == 2
MaxChunks == 2
MaxHeaders == 2
MaxBodyChars == 130
MaxOpenCalls == 2
MaxStdoutChunks == 3
MaxStderrChunks == 1

\* ---------------------------------------------------------------- program constants
DEFAULT_SERVER_PORT == 443
MaxConnections == 16
MaxReasonChars == 120

DEFAULT_SERVER_HOST == "abbreviated.ai"

Min(a, b) == IF a < b THEN a ELSE b

Range(s) == {s[k] : k \in 1..Len(s)}

\* An error by the parts of its message: kind, the host:port and the HTTP status it
\* names, and the text of the response body it quotes.
Err(kind, host, port, status) ==
  [kind |-> kind, host |-> host, port |-> port, status |-> status, detail |-> <<>>]

NoError == Err("none", "", 0, 0)

NoUrl == [protocol |-> "", hostname |-> "", port |-> ""]

NoInfo == [id |-> "", url |-> NoUrl, remoteHost |-> "", remotePort |-> 0]

VARIABLES
  cpus,           \* os.cpus().length of the machine
  apiPort,        \* opts.apiPort, the port of the allocation API
  lastFrame,      \* the last frame a message listener was called with, and its fate
  child,          \* CI wrapper: the tunnel process it spawns, and its ChildProcess
  wait,           \* CI wrapper: the locals and the promise of waitForTunnelReady
  wrapper,        \* CI wrapper: the main step, the state file, and cleanup()
  allocResponse,  \* what the allocation call of the current open() came back with
  openPayload,    \* the info object the last `open` event carried
  closed,         \* Tunnel.closed
  h2Handler,      \* Tunnel.h2Handler: 0 is null, else the handler's number
  wsConnections,  \* Tunnel.wsConnections: sequence of channel numbers
  tunnelInfo,     \* Tunnel.tunnelInfo (NoInfo is null)
  url,            \* Tunnel.url ("" is null)
  tunnelId,       \* Tunnel.tunnelId ("" is null)
  pc,             \* where the current open() call stands
  calls,          \* open() calls made so far
  i,              \* connectToServer: loop index
  streams,        \* connectToServer: local array of streams (channel numbers)
  ws,             \* every WebSocket created so far: sequence of records
  handlers,       \* every TunnelHTTP2Handler created so far: sequence of records
  emitted,        \* events emitted by the Tunnel, counted by name
  donePayloads,   \* payloads carried by the tunnel_done events, in order
  frames,         \* tunnel_done text frames the channels have delivered
  steps,          \* steps the current open() call has started, in order
  callError,      \* error carried by the `error` event the current open() emitted
  rejection,      \* error the current open() promise rejected with
  closeCalls,     \* Tunnel.close() invocations so far, by trigger
  exch            \* every virtual request accepted so far: sequence of records

\* The options the Tunnel is constructed with (index.ts passes serverPort as apiPort,
\* or 8081 with --local).
opts ==
  [localHost |-> "localhost", port |-> 3000, localHttps |-> FALSE,
   serverHost |-> DEFAULT_SERVER_HOST, serverPort |-> DEFAULT_SERVER_PORT,
   apiPort |-> apiPort]

tunnelVars == <<closed, h2Handler, wsConnections, tunnelInfo, url, tunnelId>>
openVars ==
  <<pc, calls, i, streams, steps, callError, rejection, allocResponse, openPayload>>
\* What no method of the tunnel writes.
outerVars == <<cpus, apiPort, lastFrame, child, wait, wrapper>>

tunnelSide ==
  <<cpus, apiPort, lastFrame, tunnelVars, openVars, ws, handlers, emitted, donePayloads,
    frames, closeCalls, exch>>

vars ==
  <<cpus, apiPort, lastFrame, child, wait, wrapper, allocResponse, openPayload, closed, h2Handler, wsConnections, tunnelInfo, url, tunnelId, pc, calls, i,
    streams, ws, handlers, emitted, donePayloads, frames, steps, callError,
    rejection, closeCalls, exch>>

\* ---------------------------------------------------------------- events
Emit(em, ev) == [em EXCEPT ![ev] = @ + 1]

NoPayload == [url |-> NoUrl]

\* CI wrapper, before startTunnel has spawned anything.
NoChild ==
  [spawned |-> FALSE, alive |-> FALSE, kills |-> 0, errorEvents |-> 0,
   exitEvents |-> 0, signals |-> <<>>]

\* The locals of waitForTunnelReady as the promise executor leaves them.
NewWait ==
  [stdout |-> <<>>, chunks |-> 0, stderr |-> 0, resolved |-> FALSE,
   timeout |-> "none", settled |-> <<>>]

NewWrapper == [main |-> "idle", stateFile |-> FALSE, cleanup |-> "idle", log |-> <<>>]

NoFrame == [isBinary |-> FALSE, text |-> "", outcome |-> "none"]

NoEvents == [open |-> 0, close |-> 0, error |-> 0, request |-> 0, tunnel_done |-> 0]

\* ---------------------------------------------------------------- inputs
\* Outcomes of the HEAD probe of the local server.
ProbeOutcomes == {"ok", "timeout", "ECONNREFUSED", "EHOSTUNREACH"}

\* URLs as the allocation response writes them: scheme, host and explicit port.
RawUrls ==
  {[valid |-> TRUE, protocol |-> "http:", hostname |-> "x.example", port |-> "80"],
   [valid |-> TRUE, protocol |-> "http:", hostname |-> "y.example", port |-> "8080"],
   [valid |-> FALSE, protocol |-> "", hostname |-> "", port |-> ""]}

\* A text as the sequence of its characters; Rep(c, n) is c repeated n times.
Rep(c, n) == [k \in 1..n |-> c]

\* The text of a JSON body, shown by its braces around the host it names.
JsonText(u) == <<"{", u.hostname, "}">>

\* An HTML error page, as a gateway in front of the service answers.
ErrorPage == <<"<", "h", "1", ">", "B", "a", "d", "<", "/", "h", "1", ">">>

\* Response bodies of the allocation call: JSON with tunnel_id and url, or no JSON.
JsonBody(u) == [json |-> TRUE, tunnel_id |-> "t1", url |-> u, text |-> JsonText(u)]

TextBody(text) ==
  [json |-> FALSE, tunnel_id |-> "",
   url |-> [valid |-> FALSE, protocol |-> "", hostname |-> "", port |-> ""],
   text |-> text]

AllocBodies == {JsonBody(u) : u \in RawUrls} \cup {TextBody(ErrorPage)}

AllocStatuses == {200, 401, 429, 503, 500}

\* Outcomes of the allocation call: a response, or a transport-level failure.
AllocOutcomes ==
  {[net |-> "ok", status |-> s, body |-> b] : s \in AllocStatuses, b \in AllocBodies}
    \cup {[net |-> e, status |-> 0, body |-> TextBody(<<>>)] :
            e \in {"timeout", "ECONNREFUSED", "ENOTFOUND", "ETIMEDOUT", "EPIPE"}}

\* No allocation call has returned yet.
NoResponse == [net |-> "none", status |-> 0, body |-> TextBody(<<>>)]

\* URLs with and without an explicit port, default or not, under both schemes.
AllRawUrls ==
  RawUrls \cup
    {[valid |-> TRUE, protocol |-> "http:", hostname |-> "x.example", port |-> ""],
     [valid |-> TRUE, protocol |-> "https:", hostname |-> "x.example", port |-> "80"],
     [valid |-> TRUE, protocol |-> "https:", hostname |-> "x.example", port |-> "443"],
     [valid |-> TRUE, protocol |-> "https:", hostname |-> "y.example", port |-> "8443"]}

\* Texts with tags, runs of whitespace, stray angle brackets, and more than
\* MaxReasonChars characters once stripped.
AllTexts ==
  {<<>>, ErrorPage,
   <<" ", "a", "\n", "\n", "b", " ">>,
   <<"<", ">", "x", ">">>,
   <<"a", "<", "b">>,
   <<"<", "<", "a", ">", "b", ">">>,
   <<"<", "p", ">", " ">>,
   Rep("a", MaxBodyChars),
   <<"<", "p", ">">> \o Rep("a", MaxReasonChars - 1) \o <<" ", "\t", "b", "c">>}

AllAllocStatuses ==
  {200, 201, 204, 301, 400, 401, 403, 404, 429, 500, 502, 503, 504}

AllAllocOutcomes ==
  {[net |-> "ok", status |-> s, body |-> b] :
     s \in AllAllocStatuses,
     b \in {JsonBody(u) : u \in AllRawUrls} \cup {TextBody(t) : t \in AllTexts}}
    \cup {o \in AllocOutcomes : o.net # "ok"}

\* Ports the allocation API is reached on: the default, plain HTTP, and --local.
ApiPorts == {443, 80, 8081}

\* Frames a channel can deliver: binary multiplex payload, or text.
FrameTexts == {"done:a", "done:b", "other", "null", "garbage"}

\* ---------------------------------------------------------------- Init
InitState(P, ports) ==
  /\ cpus \in 1..P
  /\ apiPort \in ports
  /\ lastFrame = NoFrame
  /\ child = NoChild
  /\ wait = NewWait
  /\ wrapper = NewWrapper
  /\ allocResponse = NoResponse
  /\ openPayload = NoPayload
  /\ closed = FALSE
  /\ h2Handler = 0
  /\ wsConnections = <<>>
  /\ tunnelInfo = NoInfo
  /\ url = NoUrl
  /\ tunnelId = ""
  /\ pc = "idle"
  /\ calls = 0
  /\ i = 0
  /\ streams = <<>>
  /\ ws = <<>>
  /\ handlers = <<>>
  /\ emitted = NoEvents
  /\ donePayloads = <<>>
  /\ frames = [done |-> 0, first |-> ""]
  /\ steps = <<>>
  /\ callError = NoError
  /\ rejection = NoError
  /\ closeCalls = [caller |-> 0, frame |-> 0]
  /\ exch = <<>>

\* A tunnel on the default API port.
InitWith(P) == InitState(P, {DEFAULT_SERVER_PORT})

Init == InitWith(MaxCpus)

\* ---------------------------------------------------------------- checkLocalServer
\* The error checkLocalServer rejects with, NoError when the probe succeeds.
checkLocalServer(outcome) ==
  CASE outcome = "ok" -> NoError
    [] outcome = "timeout" ->
         Err("Local server is not responding (timeout)", opts.localHost, opts.port, 0)
    [] outcome = "ECONNREFUSED" ->
         Err("Local server is not running (connection refused)", opts.localHost,
             opts.port, 0)
    [] OTHER -> Err("Could not reach local server", opts.localHost, opts.port, 0)

\* ---------------------------------------------------------------- getTunnelInfo
\* new URL(text): throws on an invalid URL, drops the scheme's default port.
DefaultPort(protocol) ==
  CASE protocol = "http:" -> "80" [] protocol = "https:" -> "443" [] OTHER -> ""

NewURL(raw) ==
  [protocol |-> raw.protocol, hostname |-> raw.hostname,
   port |-> IF raw.port = DefaultPort(raw.protocol) THEN "" ELSE raw.port]

\* parsedUrl.protocol = p: the setter drops a port that is the new scheme's default.
SetProtocol(u, p) ==
  [u EXCEPT !.protocol = p, !.port = IF u.port = DefaultPort(p) THEN "" ELSE u.port]

apiScheme == IF opts.apiPort = 443 THEN "https" ELSE "http"

\* A normalization that sets the scheme and leaves the port to the setter.
NormalizeUrlBySetter(raw) ==
  IF apiScheme = "https" THEN SetProtocol(NewURL(raw), "https:") ELSE NewURL(raw)

NormalizeUrl(raw) ==
  LET parsedUrl == NewURL(raw)
      https == SetProtocol(parsedUrl, "https:")
  IN  IF apiScheme = "https"
        THEN IF https.port = "80" THEN [https EXCEPT !.port = ""] ELSE https
        ELSE parsedUrl

\* The reason of a non-200 response.
StatusReason(status) ==
  CASE status \in {502, 503, 504} -> "Tunnel server is temporarily unavailable"
    [] status \in {401, 403} -> "Authentication failed"
    [] status = 429 -> "Rate limited by tunnel server"
    [] OTHER -> "HTTP"

Whitespace == {" ", "\n", "\t"}

\* A text with the position of each character, and back.
Indexed(s) == [k \in 1..Len(s) |-> [c |-> s[k], k |-> k]]

Chars(ps) == [j \in 1..Len(ps) |-> ps[j].c]

\* Index of the first ">" of s at or after position k, 0 if there is none.
FirstGt(s, k) ==
  LET gts == {q \in k..Len(s) : s[q] = ">"}
  IN  IF gts = {} THEN 0 ELSE CHOOSE q \in gts : \A r \in gts : q <= r

\* Whether position k of s lies in a match of /<[^>]+>/: between a "<" and the
\* first ">" after it, with at least one character other than ">" in between.
InTag(s, k) ==
  /\ FirstGt(s, k) # 0
  /\ \E p \in 1..k :
       /\ s[p] = "<"
       /\ p + 2 <= FirstGt(s, k)
       /\ \A r \in (p + 1)..(k - 1) : s[r] # ">"

\* data.replace(/<[^>]+>/g, ""): every match is removed.
StripTags(s) == Chars(SelectSeq(Indexed(s), LAMBDA x : ~InTag(s, x.k)))

\* .replace(/\s+/g, " "): every run of whitespace becomes one space.
CollapseSpace(s) ==
  LET kept == SelectSeq(Indexed(s),
                        LAMBDA x : ~(x.c \in Whitespace /\ x.k > 1
                                       /\ s[x.k - 1] \in Whitespace))
  IN  [j \in 1..Len(kept) |-> IF kept[j].c \in Whitespace THEN " " ELSE kept[j].c]

\* .trim(): leading and trailing whitespace is removed.
Trim(s) ==
  LET solid == {k \in 1..Len(s) : s[k] \notin Whitespace}
  IN  IF solid = {} THEN <<>>
      ELSE SubSeq(s, CHOOSE k \in solid : \A r \in solid : k <= r,
                  CHOOSE k \in solid : \A r \in solid : k >= r)

\* plain.slice(0, n).
Slice(s, n) == SubSeq(s, 1, Min(Len(s), n))

\* The text a generic status failure quotes; the named statuses quote none.
StatusDetail(status, data) ==
  IF StatusReason(status) = "HTTP"
    THEN Slice(Trim(CollapseSpace(StripTags(data))), MaxReasonChars)
    ELSE <<>>

\* What the promise of getTunnelInfo settles with for one outcome of the call.
getTunnelInfo(outcome) ==
  IF outcome.net = "timeout"
    THEN [ok |-> FALSE, info |-> NoInfo,
          err |-> Err("Tunnel server timed out", opts.serverHost, opts.apiPort, 0)]
  ELSE IF outcome.net = "ECONNREFUSED"
    THEN [ok |-> FALSE, info |-> NoInfo,
          err |-> Err("Tunnel server is not running (connection refused)",
                      opts.serverHost, opts.apiPort, 0)]
  ELSE IF outcome.net = "ENOTFOUND"
    THEN [ok |-> FALSE, info |-> NoInfo,
          err |-> Err("Tunnel server host could not be resolved", opts.serverHost, 0, 0)]
  ELSE IF outcome.net = "ETIMEDOUT"
    THEN [ok |-> FALSE, info |-> NoInfo,
          err |-> Err("Tunnel server is not responding", opts.serverHost,
                      opts.apiPort, 0)]
  ELSE IF outcome.net # "ok"
    THEN [ok |-> FALSE, info |-> NoInfo, err |-> Err(outcome.net, "", 0, 0)]
  ELSE IF outcome.status # 200
    THEN [ok |-> FALSE, info |-> NoInfo,
          err |-> [Err(StatusReason(outcome.status), "", 0, outcome.status)
                     EXCEPT !.detail = StatusDetail(outcome.status, outcome.body.text)]]
  ELSE IF ~outcome.body.json \/ ~outcome.body.url.valid
    THEN [ok |-> FALSE, info |-> NoInfo,
          err |-> Err("Failed to parse tunnel response", "", 0, 0)]
  ELSE [ok |-> TRUE, err |-> NoError,
        info |-> [id |-> outcome.body.tunnel_id, url |-> NormalizeUrl(outcome.body.url),
                  remoteHost |-> opts.serverHost, remotePort |-> opts.serverPort]]

\* ---------------------------------------------------------------- close
\* A teardown loop that closes every connection of the array, whatever its state.
CloseConnectionsAll(w, conns) ==
  [c \in DOMAIN w |->
     IF c \in Range(conns)
       THEN [w[c] EXCEPT !.state = "CLOSING", !.closeCalls = @ + 1]
       ELSE w[c]]

\* ws.close() on every connection of the array that is OPEN or CONNECTING.
CloseConnections(w, conns) ==
  [c \in DOMAIN w |->
     IF c \in Range(conns) /\ w[c].state \in {"OPEN", "CONNECTING"}
       THEN [w[c] EXCEPT !.state = "CLOSING", !.closeCalls = @ + 1]
       ELSE w[c]]

\* TunnelHTTP2Handler.close() of the handler the tunnel holds, if it holds one.
CloseHandler(hs, h) ==
  IF h # 0 THEN [hs EXCEPT ![h].state = "closed"] ELSE hs

\* The `close` event, as Tunnel.close() emits it.
EmitClose(em) == Emit(em, "close")

\* Tunnel.close(), run with `em` as the events emitted so far.
close(em) ==
  /\ closed' = TRUE
  /\ handlers' = CloseHandler(handlers, h2Handler)
  /\ h2Handler' = 0
  /\ ws' = CloseConnections(ws, wsConnections)
  /\ wsConnections' = <<>>
  /\ emitted' = EmitClose(em)

\* close() called by the owner of the tunnel or by the SIGINT handler.
CallClose ==
  /\ closeCalls.caller < MaxCloseCalls
  /\ closeCalls' = [closeCalls EXCEPT !.caller = @ + 1]
  /\ close(emitted)
  /\ UNCHANGED <<outerVars, tunnelInfo, url, tunnelId, openVars, donePayloads, frames, exch>>

\* ---------------------------------------------------------------- open
\* A pool size without the cap.
numConnectionsUncapped == cpus

numConnections == Min(cpus, MaxConnections)

\* A catch block that rethrows without emitting `error`.
CatchSilently(err) ==
  /\ rejection' = err
  /\ pc' = "rejected"
  /\ UNCHANGED <<emitted, callError>>

\* The catch block of open(): emit `error`, rethrow.
Catch(err) ==
  /\ emitted' = Emit(emitted, "error")
  /\ callError' = err
  /\ rejection' = err
  /\ pc' = "rejected"

\* createTunnel: the tunnel is constructed and open() is called on it, once.
OpenStart ==
  /\ pc = "idle"
  /\ calls = 0
  /\ calls' = calls + 1
  /\ pc' = "probe"
  /\ steps' = <<"probe">>
  /\ callError' = NoError
  /\ rejection' = NoError
  /\ UNCHANGED <<outerVars, openPayload, allocResponse, tunnelVars, i, streams, ws, handlers, emitted, donePayloads,
                 frames, closeCalls, exch>>

\* open() is called again on the same Tunnel, after the previous call settled:
\* nothing in open() tells a first call from a later one.
OpenAgain ==
  /\ pc \in {"resolved", "rejected"}
  /\ calls < MaxOpenCalls
  /\ calls' = calls + 1
  /\ pc' = "probe"
  /\ steps' = <<"probe">>
  /\ callError' = NoError
  /\ rejection' = NoError
  /\ UNCHANGED <<outerVars, openPayload, allocResponse, tunnelVars, i, streams, ws, handlers,
                 emitted, donePayloads, frames, closeCalls, exch>>

ProbeDone ==
  /\ pc = "probe"
  /\ \E outcome \in ProbeOutcomes :
       LET err == checkLocalServer(outcome)
       IN  IF err = NoError
             THEN /\ pc' = "alloc"
                  /\ steps' = Append(steps, "alloc")
                  /\ UNCHANGED <<emitted, callError, rejection>>
             ELSE /\ Catch(err)
                  /\ UNCHANGED steps
  /\ UNCHANGED <<outerVars, openPayload, allocResponse, tunnelVars, calls, i, streams, ws, handlers, donePayloads,
                 frames, closeCalls, exch>>

\* new WebSocket(...): CONNECTING, with no listener of the tunnel yet.
NewWebSocket ==
  [state |-> "CONNECTING", listeners |-> FALSE, closeCalls |-> 0, dropped |-> FALSE,
   logged |-> FALSE]

\* new TunnelHTTP2Handler({streams}) followed by startListening().
NewHandler(strms) == [state |-> "listening", streams |-> strms]

\* A loop that stops after its first handshake.
loopTestOne(k) == k < 1

\* The test of the for loop: i < numConnections.
loopTest(k) == k < numConnections

\* connectToServer at the loop test with i = k: the next handshake, or the handler.
ContinueLoop(k, ws1, streams1, st) ==
  /\ i' = k
  /\ IF loopTest(k)
       THEN /\ ws' = Append(ws1, NewWebSocket)
            /\ streams' = streams1
            /\ pc' = "handshake"
            /\ steps' = st
            /\ UNCHANGED <<handlers, h2Handler, emitted, openPayload>>
       ELSE /\ ws' = ws1
            /\ streams' = streams1
            /\ handlers' = Append(handlers, NewHandler(streams1))
            /\ h2Handler' = Len(handlers) + 1
            /\ emitted' = Emit(emitted, "open")
            /\ openPayload' = [url |-> url']
            /\ steps' = Append(st, "open")
            /\ pc' = "resolved"

\* An open() that copies the url of the TunnelInfo and forgets its id.
AssignInfoUrlOnly(info) == [url |-> info.url, tunnelId |-> ""]

\* open(): this.url = this.tunnelInfo.url; this.tunnelId = this.tunnelInfo.id.
AssignInfo(info) == [url |-> info.url, tunnelId |-> info.id]

\* The allocation call of open() returns with one of `outcomes`.
AllocFrom(outcomes) ==
  /\ pc = "alloc"
  /\ \E outcome \in outcomes :
       LET r == getTunnelInfo(outcome)
       IN  /\ allocResponse' = outcome
           /\ IF r.ok
                THEN /\ tunnelInfo' = r.info
                     /\ url' = AssignInfo(r.info).url
                     /\ tunnelId' = AssignInfo(r.info).tunnelId
                     /\ ContinueLoop(0, ws, <<>>, Append(steps, "pool"))
                     /\ UNCHANGED <<callError, rejection>>
                ELSE /\ Catch(r.err)
                     /\ UNCHANGED <<tunnelInfo, url, tunnelId, i, streams, ws,
                                    handlers, h2Handler, steps, openPayload>>
  /\ UNCHANGED <<outerVars, closed, wsConnections, calls, donePayloads, frames,
                 closeCalls, exch>>

AllocDone == steps # <<>> /\ AllocFrom(AllocOutcomes)

\* The allocation call returns with any status, body and URL.
AllocAny == steps # <<>> /\ AllocFrom(AllAllocOutcomes)

\* The `open` event of the WebSocket being awaited: the rest of the loop body runs
\* (listeners installed, connection and stream pushed), then the next iteration.
HandshakeOpen ==
  /\ pc = "handshake"
  /\ UNCHANGED <<outerVars, allocResponse, closed, tunnelInfo, url, tunnelId, calls,
                 donePayloads, frames, callError, rejection, closeCalls, exch>>
  /\ LET c == Len(ws)
         ws1 == [ws EXCEPT ![c].state = "OPEN", ![c].listeners = TRUE]
     IN  /\ wsConnections' = Append(wsConnections, c)
         /\ ContinueLoop(i + 1, ws1, Append(streams, c), steps)

\* The `error` event of the WebSocket being awaited: connectToServer throws.
HandshakeError ==
  /\ pc = "handshake"
  /\ ws' = [ws EXCEPT ![Len(ws)].state = "CLOSED"]
  /\ Catch(Err("WebSocket connection failed", tunnelInfo.remoteHost,
               tunnelInfo.remotePort, 0))
  /\ UNCHANGED <<outerVars, openPayload, allocResponse, tunnelVars, calls, i, streams, handlers, donePayloads, frames,
                 steps,
                 closeCalls, exch>>

\* ---------------------------------------------------------------- channel listeners
\* Channels the network or the peer has failed or closed so far.
Dropped == {c \in DOMAIN ws : ws[c].dropped}

\* An error listener that forgets the closed flag.
onChannelErrorAlways(em) == Emit(em, "error")

\* The body of ws.on("error"): if (!this.closed) this.emit("error", err).
onChannelError(em) == IF ~closed THEN Emit(em, "error") ELSE em

\* ws.on("error"): the connection fails after its handshake.
ChannelError ==
  \E c \in DOMAIN ws :
    /\ ws[c].listeners
    /\ ws[c].state = "OPEN"
    /\ Cardinality(Dropped) < MaxDrops
    /\ ws' = [ws EXCEPT ![c].state = "CLOSING", ![c].dropped = TRUE]
    /\ emitted' = onChannelError(emitted)
    /\ UNCHANGED <<outerVars, tunnelVars, openVars, handlers, donePayloads, frames,
                   closeCalls, exch>>

\* A close listener that reports the close as a tunnel-level error.
onChannelCloseEscalating(em) == IF ~closed THEN Emit(em, "error") ELSE em

\* The body of ws.on("close"): if (!this.closed) console.error(...). It emits
\* nothing; closeLogged is whether it writes its line to the log.
onChannelClose(em) == em

closeLogged == ~closed

\* ws.on("close"): the connection is gone, after an error, a close by the peer or
\* the end of the closing handshake ws.close() began; the listener only logs.
ChannelClose ==
  \E c \in DOMAIN ws :
    /\ ws[c].listeners
    /\ ws[c].state \in {"OPEN", "CLOSING"}
    /\ ws[c].dropped \/ Cardinality(Dropped) < MaxDrops
    /\ ws' = [ws EXCEPT ![c].state = "CLOSED", ![c].dropped = TRUE,
                        ![c].logged = closeLogged]
    /\ emitted' = onChannelClose(emitted)
    /\ UNCHANGED <<outerVars, tunnelVars, openVars, handlers, donePayloads, frames,
                   closeCalls, exch>>

\* JSON.parse(data.toString()) of a text frame, and what payload.type reads.
JSONParse(text) ==
  CASE text = "done:a" ->
         [ok |-> TRUE, object |-> TRUE, type |-> "tunnel_done", data |-> "a"]
    [] text = "done:b" ->
         [ok |-> TRUE, object |-> TRUE, type |-> "tunnel_done", data |-> "b"]
    [] text = "other" -> [ok |-> TRUE, object |-> TRUE, type |-> "ping", data |-> ""]
    [] text = "null" -> [ok |-> TRUE, object |-> FALSE, type |-> "", data |-> ""]
    [] OTHER -> [ok |-> FALSE, object |-> FALSE, type |-> "", data |-> ""]

\* A message listener that forgets the closed flag.
FrameIgnoredIfBinary(isBinary) == isBinary

\* Whether the message listener ignores a frame before parsing it.
FrameIgnored(isBinary) == isBinary \/ closed

\* A message listener that takes every JSON object for the done signal.
FrameOutcomeAnyObject(isBinary, text) ==
  LET payload == JSONParse(text)
  IN  IF FrameIgnored(isBinary) THEN "skipped"
      ELSE IF ~payload.ok \/ ~payload.object THEN "caught"
      ELSE "done"

\* The path one call of the message listener takes: "skipped" returns before the
\* try block, "caught" ends in the catch clause (JSON.parse threw, or the read of
\* .type of null did), "ignored" parsed a payload of another type, "done" emits
\* tunnel_done and closes. Nothing of the listener lies outside the try block but
\* the first test, so no path throws out of it.
FrameOutcome(isBinary, text) ==
  LET payload == JSONParse(text)
  IN  IF FrameIgnored(isBinary) THEN "skipped"
      ELSE IF ~payload.ok \/ ~payload.object THEN "caught"
      ELSE IF payload.type = "tunnel_done" THEN "done"
      ELSE "ignored"

\* ws.on("message") of channel c.
OnMessage(c, isBinary, text) ==
  LET payload == JSONParse(text)
  IN  IF FrameOutcome(isBinary, text) = "done"
        THEN /\ donePayloads' = Append(donePayloads, payload.data)
             /\ closeCalls' = [closeCalls EXCEPT !.frame = @ + 1]
             /\ close(Emit(emitted, "tunnel_done"))
        ELSE UNCHANGED <<closed, handlers, h2Handler, ws, wsConnections, emitted,
                         donePayloads, closeCalls>>

\* The tunnel_done frames the service sends, and the data each carries.
DoneData(text) ==
  CASE text = "done:a" -> "a" [] text = "done:b" -> "b" [] OTHER -> ""

\* A frame arrives on an open channel. The tunnel_done text frames are counted as
\* they arrive, and the data of the first to reach a tunnel not yet closed is kept.
Deliver(c, isBinary, text) ==
  LET isDone == ~isBinary /\ DoneData(text) # ""
  IN  /\ ws[c].listeners
      /\ ws[c].state = "OPEN"
      /\ isDone => frames.done < MaxDoneFrames
      /\ frames' =
           IF isDone
             THEN [done |-> frames.done + 1,
                   first |-> IF frames.first = "" /\ ~closed
                               THEN DoneData(text) ELSE frames.first]
             ELSE frames
      /\ OnMessage(c, isBinary, text)

ControlFrame ==
  /\ \E c \in DOMAIN ws, isBinary \in BOOLEAN, text \in FrameTexts :
       Deliver(c, isBinary, text)
  /\ UNCHANGED <<outerVars, tunnelInfo, url, tunnelId, openVars, exch>>

\* The same arrival, with the frame and the path the listener took kept for
\* inspection.
ObservedFrame ==
  /\ \E c \in DOMAIN ws, isBinary \in BOOLEAN, text \in FrameTexts :
       /\ Deliver(c, isBinary, text)
       /\ lastFrame' = [isBinary |-> isBinary, text |-> text,
                        outcome |-> FrameOutcome(isBinary, text)]
  /\ UNCHANGED <<cpus, apiPort, child, wait, wrapper, tunnelInfo, url, tunnelId,
                 openVars, exch>>

\* ---------------------------------------------------------------- virtual response
NewResponse == [heads |-> <<>>, body |-> <<>>, ended |-> FALSE]

headersSent(res) == Len(res.heads) > 0

\* res.writeHead(status) on a response whose headers are unsent.
writeHead(res, status) == [res EXCEPT !.heads = Append(@, status)]

\* res.end(data): the data is written unless the response has already ended.
end(res, data) ==
  IF res.ended THEN res
  ELSE [res EXCEPT !.body = IF data = "" THEN @ ELSE Append(@, data), !.ended = TRUE]

\* An error path that writes the 502 status whatever was sent before.
respondBadGatewayUnchecked(res, message) == end(writeHead(res, 502), message)

\* The error path shared by the forwarders' failure callbacks:
\*   if (!res.headersSent) res.writeHead(502, ...); res.end(message).
respondBadGateway(res, message) ==
  end(IF ~headersSent(res) THEN writeHead(res, 502) ELSE res, message)

\* ---------------------------------------------------------------- startListening
HOP_BY_HOP_HEADERS ==
  {"connection", "keep-alive", "proxy-authenticate", "proxy-authorization", "te",
   "trailers", "transfer-encoding"}

\* Header names that start with ":", the pseudo-headers of HTTP/2.
PseudoHeaders == {":method", ":path", ":scheme", ":authority"}

StartsWithColon(key) == key \in PseudoHeaders

\* key.toLowerCase(); the keys of req.headers and clientRes.headers are lower-case.
ToLowerCase(key) ==
  CASE key = "Connection" -> "connection"
    [] key = "Keep-Alive" -> "keep-alive"
    [] key = "TE" -> "te"
    [] key = "Host" -> "host"
    [] key = "Upgrade" -> "upgrade"
    [] OTHER -> key

NoHeaders == [key \in {} |-> ""]

\* An inbound virtual request as the listener reads it: req.method and req.url come
\* from the pseudo-headers, upgrade is what req.headers["upgrade"] reads.
Request(headers) ==
  [method |-> headers[":method"], url |-> headers[":path"], headers |-> headers,
   upgrade |-> IF "upgrade" \in DOMAIN headers THEN headers["upgrade"] ELSE ""]

Pseudo(method, path) == (":method" :> method) @@ (":path" :> path)

\* Inbound virtual requests: a plain request and a WebSocket upgrade.
Requests ==
  {Request(Pseudo("GET", "/foo?x=1") @@ ("host" :> "t1.x.example")
             @@ ("accept" :> "v")),
   Request(Pseudo("GET", "/socket") @@ ("host" :> "t1.x.example")
             @@ ("upgrade" :> "websocket"))}

\* Names a request can carry besides its pseudo-headers.
RequestHeaderNames == HOP_BY_HOP_HEADERS \cup {"host", "upgrade", "accept", "x-id"}

UpgradeValues == {"websocket", "h2c"}

\* Requests with up to MaxHeaders of those names, in every combination.
AllRequests ==
  {Request(Pseudo("GET", "/foo?x=1")
             @@ [key \in names |-> IF key = "upgrade" THEN u ELSE "v"]) :
     names \in {n \in SUBSET RequestHeaderNames : Cardinality(n) <= MaxHeaders},
     u \in UpgradeValues}

\* A request filter that leaves out the two deletes.
headersToForwardKeepingHost(headers) ==
  [key \in {k \in DOMAIN headers :
              ~StartsWithColon(k) /\ ToLowerCase(k) \notin HOP_BY_HOP_HEADERS} |->
     headers[key]]

\* handleHttpRequest: the headers passed to the local request.
headersToForward(headers) ==
  LET kept == {key \in DOMAIN headers :
                 ~StartsWithColon(key) /\ ToLowerCase(key) \notin HOP_BY_HOP_HEADERS}
  IN  [key \in kept \ {"host", "upgrade"} |-> headers[key]]

\* handleWebSocketUpgrade: the headers passed to the local WebSocket (the values of
\* request headers are strings, which String(value) returns as they are).
wsHeaders(headers) ==
  LET kept == {key \in DOMAIN headers :
                 /\ ~StartsWithColon(key)
                 /\ ToLowerCase(key) \notin HOP_BY_HOP_HEADERS
                 /\ ToLowerCase(key) # "host"
                 /\ ToLowerCase(key) # "upgrade"}
  IN  [key \in kept |-> headers[key]]

\* The response callback: the headers written to the virtual response.
responseHeaders(headers) ==
  [key \in {k \in DOMAIN headers : ToLowerCase(k) \notin HOP_BY_HOP_HEADERS} |->
     headers[key]]

\* A request listener that dispatches before it emits `request`.
onRequestDispatchFirst(req) ==
  (IF req.upgrade = "websocket"
     THEN <<[op |-> "new WebSocket", method |-> req.method, path |-> req.url]>>
     ELSE <<[op |-> "http request", method |-> req.method, path |-> req.url]>>)
    \o <<[op |-> "emit request", method |-> req.method, path |-> req.url]>>

\* A request listener that takes any upgrade header for a WebSocket upgrade.
onRequestAnyUpgrade(req) ==
  <<[op |-> "emit request", method |-> req.method, path |-> req.url]>>
    \o (IF req.upgrade # ""
          THEN <<[op |-> "new WebSocket", method |-> req.method, path |-> req.url]>>
          ELSE <<[op |-> "http request", method |-> req.method, path |-> req.url]>>)

\* What the server's request listener does, in order, for one request.
onRequest(req) ==
  <<[op |-> "emit request", method |-> req.method, path |-> req.url]>>
    \o (IF req.upgrade = "websocket"
          THEN <<[op |-> "new WebSocket", method |-> req.method, path |-> req.url]>>
          ELSE <<[op |-> "http request", method |-> req.method, path |-> req.url]>>)

\* The exchange a dispatched request starts. For a WebSocket bridge: virt is the
\* virtual stream as the peer leaves it (open, ended, reset), bridged is whether the
\* listeners of the `open` callback are installed, inbound and toLocal are the chunks
\* the data listener received and the frames it sent, fromLocal the messages the
\* local WebSocket delivered; res.body holds the chunks written to the stream.
NewExchange(req) ==
  [kind |-> IF req.upgrade = "websocket" THEN "ws" ELSE "http",
   req |-> req,
   trace |-> onRequest(req),
   clientReq |-> IF req.upgrade = "websocket" THEN "none" ELSE "pending",
   reqPipe |-> IF req.upgrade = "websocket" THEN "none" ELSE "running",
   resPipe |-> "none",
   localWs |-> IF req.upgrade = "websocket" THEN "CONNECTING" ELSE "none",
   res |-> NewResponse,
   threw |-> FALSE,
   logged |-> 0,
   forwarded |-> IF req.upgrade = "websocket" THEN wsHeaders(req.headers)
                 ELSE headersToForward(req.headers),
   clientRes |-> NoHeaders,
   relayed |-> NoHeaders,
   virt |-> "open",
   bridged |-> FALSE,
   inbound |-> <<>>,
   toLocal |-> <<>>,
   fromLocal |-> <<>>]

\* A channel that can carry a request to handler h: one of its streams, still open.
Carries(h, c) ==
  /\ handlers[h].state = "listening"
  /\ c \in Range(handlers[h].streams)
  /\ ws[c].state = "OPEN"

\* server.on("request") for a request of `reqs`: emit `request` (the tunnel
\* re-emits it), then dispatch.
RequestFrom(reqs) ==
  /\ \E h \in DOMAIN handlers, c \in DOMAIN ws : Carries(h, c)
  /\ \E req \in reqs :
       /\ exch' = Append(exch, NewExchange(req))
       /\ emitted' =
            [emitted EXCEPT !.request =
               @ + Cardinality({k \in DOMAIN onRequest(req) :
                                  onRequest(req)[k].op = "emit request"})]
  /\ UNCHANGED <<outerVars, tunnelVars, openVars, ws, handlers, donePayloads, frames,
                 closeCalls>>

VirtualRequest == Len(exch) < MaxExchanges /\ RequestFrom(Requests)

\* One request with any of the header combinations.
AnyRequest == exch = <<>> /\ RequestFrom(AllRequests)

\* ---------------------------------------------------------------- handleHttpRequest
\* A forwarder whose callbacks raise a tunnel-level `error`.
ExchangeFrameEscalating ==
  /\ emitted' = Emit(emitted, "error")
  /\ UNCHANGED <<outerVars, tunnelVars, openVars, ws, handlers, donePayloads, frames,
                 closeCalls>>

\* Everything a callback of one exchange leaves alone.
ExchangeFrame ==
  UNCHANGED <<outerVars, tunnelVars, openVars, ws, handlers, emitted, donePayloads,
              frames, closeCalls>>

LocalStatuses == {0, 200}

\* clientRes.headers of a typical local response.
LocalHeaders == {("content-type" :> "v") @@ ("connection" :> "v")}

\* Names a local response can carry.
ResponseHeaderNames == HOP_BY_HOP_HEADERS \cup {"content-type", "set-cookie"}

\* Local response headers with up to MaxHeaders of those names.
AllLocalHeaders ==
  {[key \in names |-> "v"] :
     names \in {n \in SUBSET ResponseHeaderNames : Cardinality(n) <= MaxHeaders}}

\* The response callback of the local request.
onLocalResponse(x, statusCode, headers) ==
  IF headersSent(x.res)
    THEN [x EXCEPT !.threw = TRUE, !.clientReq = "responded", !.clientRes = headers]
    ELSE [x EXCEPT !.res = writeHead(@, IF statusCode # 0 THEN statusCode ELSE 502),
                   !.clientRes = headers, !.relayed = responseHeaders(headers),
                   !.clientReq = "responded", !.resPipe = "running"]

LocalResponseFrom(headerSets) ==
  /\ \E e \in DOMAIN exch, statusCode \in LocalStatuses, headers \in headerSets :
       /\ exch[e].clientReq = "pending"
       /\ exch' = [exch EXCEPT ![e] = onLocalResponse(@, statusCode, headers)]
  /\ ExchangeFrame

LocalResponse == exch # <<>> /\ LocalResponseFrom(LocalHeaders)

\* A local response with any of the header combinations.
LocalResponseAny == exch # <<>> /\ LocalResponseFrom(AllLocalHeaders)

\* pipeline(clientRes, res) ends: the body was relayed, or the pipe failed (logged).
onResponsePipeline(x, failed) ==
  IF failed
    THEN [x EXCEPT !.res.ended = TRUE, !.resPipe = "failed", !.logged = @ + 1]
    ELSE [x EXCEPT !.res = end(@, "local body"), !.resPipe = "done"]

ResponsePipeline ==
  /\ \E e \in DOMAIN exch, failed \in BOOLEAN :
       /\ exch[e].resPipe = "running"
       /\ exch' = [exch EXCEPT ![e] = onResponsePipeline(@, failed)]
  /\ ExchangeFrame

\* pipeline(req, clientReq) ends: nothing on success, the error path on failure,
\* where the pipeline has destroyed the local request.
onRequestPipeline(x, failed) ==
  IF failed
    THEN [x EXCEPT !.res = respondBadGateway(@, "Bad Gateway"),
                   !.reqPipe = "failed", !.logged = @ + 1,
                   !.clientReq = IF @ = "pending" THEN "destroyed" ELSE @]
    ELSE [x EXCEPT !.reqPipe = "done"]

RequestPipeline ==
  /\ \E e \in DOMAIN exch, failed \in BOOLEAN :
       /\ exch[e].reqPipe = "running"
       /\ exch[e].clientReq # "errored"
       /\ exch' = [exch EXCEPT ![e] = onRequestPipeline(@, failed)]
  /\ ExchangeFrame

\* clientReq.on("error").
onClientReqError(x) ==
  [x EXCEPT !.res = respondBadGateway(@, "Failed to connect to local server"),
            !.clientReq = "errored", !.logged = @ + 1]

ClientReqError ==
  /\ \E e \in DOMAIN exch :
       /\ exch[e].clientReq \in {"pending", "responded", "destroyed"}
       /\ exch[e].resPipe # "done"
       /\ exch' = [exch EXCEPT ![e] = onClientReqError(@)]
  /\ ExchangeFrame

\* ---------------------------------------------------------------- handleWebSocketUpgrade
\* localWs.on("open"): writeHead(200), which a stream already closed ignores, then
\* the four listeners of the bridge are installed.
onLocalWsOpen(x) ==
  IF headersSent(x.res)
    THEN [x EXCEPT !.threw = TRUE, !.localWs = "OPEN"]
    ELSE [x EXCEPT !.res = IF x.virt = "reset" THEN @ ELSE writeHead(@, 200),
                   !.localWs = "OPEN", !.bridged = TRUE]

LocalWsOpen ==
  /\ \E e \in DOMAIN exch :
       /\ exch[e].localWs = "CONNECTING"
       /\ exch' = [exch EXCEPT ![e] = onLocalWsOpen(@)]
  /\ ExchangeFrame

\* An error listener that writes the 502 status without looking at headersSent.
onLocalWsErrorUnchecked(x) ==
  [x EXCEPT !.res = end(writeHead(@, 502), "Failed to connect to local WebSocket"),
            !.localWs = "CLOSING", !.logged = @ + 1]

\* localWs.on("error").
onLocalWsError(x) ==
  [x EXCEPT !.res = respondBadGateway(@, "Failed to connect to local WebSocket"),
            !.localWs = "CLOSING", !.logged = @ + 1]

LocalWsError ==
  /\ \E e \in DOMAIN exch :
       /\ exch[e].localWs \in {"CONNECTING", "OPEN"}
       /\ exch' = [exch EXCEPT ![e] = onLocalWsError(@)]
  /\ ExchangeFrame

\* ---------------------------------------------------------------- the bridge's listeners
\* Chunks the virtual stream can deliver.
Chunks == {"a", "b"}

\* Messages the local WebSocket can deliver: a Buffer, or an ArrayBuffer.
LocalMessages ==
  {[isBuffer |-> TRUE, bytes |-> "a"], [isBuffer |-> FALSE, bytes |-> "b"]}

\* Buffer.from(data): a Buffer over the same bytes.
BufferFrom(data) == [isBuffer |-> TRUE, bytes |-> data.bytes]

\* res.closed: the virtual stream is gone.
resClosed(x) == x.virt = "reset"

\* res.write(chunk): nothing is written to a response that has ended.
write(res, chunk) == IF res.ended THEN res ELSE [res EXCEPT !.body = Append(@, chunk)]

\* One upgrade request on the tunnel.
UpgradeRequest ==
  exch = <<>> /\ RequestFrom({req \in Requests : req.upgrade = "websocket"})

\* req.on("data"): the chunk is sent if the local WebSocket is OPEN.
onVirtualData(x, chunk) ==
  [x EXCEPT !.inbound = Append(@, chunk),
            !.toLocal = IF x.localWs = "OPEN" THEN Append(@, chunk) ELSE @]

VirtualData ==
  /\ \E e \in DOMAIN exch, chunk \in Chunks :
       /\ exch[e].bridged
       /\ exch[e].virt = "open"
       /\ Len(exch[e].inbound) < MaxChunks
       /\ exch' = [exch EXCEPT ![e] = onVirtualData(@, chunk)]
  /\ ExchangeFrame

\* req.on("end"): the local WebSocket is closed if it is OPEN.
onVirtualEnd(x) ==
  [x EXCEPT !.virt = "ended", !.localWs = IF @ = "OPEN" THEN "CLOSING" ELSE @]

VirtualEnd ==
  /\ \E e \in DOMAIN exch :
       /\ exch[e].bridged
       /\ exch[e].virt = "open"
       /\ exch' = [exch EXCEPT ![e] = onVirtualEnd(@)]
  /\ ExchangeFrame

\* The virtual stream is closed (reset by the peer, or its channel is gone). The
\* request object then reads end-of-stream: a flowing request (listeners installed)
\* emits `end`; a request nobody reads yet is drained and its `end` passes with no
\* listener. Neither forwarder listens for `close` or `aborted`.
VirtualReset ==
  /\ \E e \in DOMAIN exch :
       /\ exch[e].kind = "ws"
       /\ exch[e].virt \in {"open", "ended"}
       /\ exch' =
            [exch EXCEPT ![e] =
               [(IF @.bridged /\ @.virt = "open" THEN onVirtualEnd(@) ELSE @)
                  EXCEPT !.virt = "reset"]]
  /\ ExchangeFrame

\* localWs.on("message"): the data as a Buffer is written unless res.closed.
onLocalMessage(x, data) ==
  LET buf == IF data.isBuffer THEN data ELSE BufferFrom(data)
  IN  [x EXCEPT !.fromLocal = Append(@, data.bytes),
                !.res = IF ~resClosed(x) THEN write(@, buf.bytes) ELSE @]

\* A message arrives while the local WebSocket is OPEN, or while the closing
\* handshake that localWs.close() began is under way.
LocalMessage ==
  /\ \E e \in DOMAIN exch, data \in LocalMessages :
       /\ exch[e].bridged
       /\ exch[e].localWs = "OPEN" \/ (exch[e].localWs = "CLOSING" /\ exch[e].logged = 0)
       /\ Len(exch[e].fromLocal) < MaxChunks
       /\ exch' = [exch EXCEPT ![e] = onLocalMessage(@, data)]
  /\ ExchangeFrame

\* localWs.on("close"), installed by the `open` callback: res.end() unless res.closed.
onLocalWsClose(x) ==
  [x EXCEPT !.localWs = "CLOSED",
            !.res = IF x.bridged /\ ~resClosed(x) THEN end(@, "") ELSE @]

\* The local server closes an OPEN WebSocket.
LocalWsClose ==
  /\ \E e \in DOMAIN exch :
       /\ exch[e].localWs = "OPEN"
       /\ exch' = [exch EXCEPT ![e] = onLocalWsClose(@)]
  /\ ExchangeFrame

\* The closing of a local WebSocket completes (after close() or an error).
LocalWsClosed ==
  /\ \E e \in DOMAIN exch :
       /\ exch[e].localWs = "CLOSING"
       /\ exch' = [exch EXCEPT ![e] = onLocalWsClose(@)]
  /\ ExchangeFrame

Forwarding ==
  \/ LocalResponse
  \/ ResponsePipeline
  \/ RequestPipeline
  \/ ClientReqError
  \/ LocalWsOpen
  \/ LocalWsError

\* ---------------------------------------------------------------- CI wrapper: waitForTunnelReady
\* The child's standard output is a sequence of tokens: the two labels the CLI
\* prints, white space, and other characters.
UrlLabel == "Public URL:"
IdLabel == "Tunnel ID:"

IsSpace(t) == t \in {" ", "\n"}

\* Chunks the pipe may deliver: whole lines, and lines cut anywhere.
StdoutChunks ==
  {<<UrlLabel, " ", "u", "\n">>, <<IdLabel, " ", "t", "\n">>, <<UrlLabel, " ">>,
   <<"u">>, <<IdLabel>>, <<"\n">>}

\* Where label followed by \s*(\S+) matches in text: the positions of the label
\* after which, past any white space, a character that is not white space follows.
MatchStarts(label, text) ==
  {k \in DOMAIN text :
     /\ text[k] = label
     /\ \E j \in (k + 1)..Len(text) :
          /\ ~IsSpace(text[j])
          /\ \A m \in (k + 1)..(j - 1) : IsSpace(text[m])}

\* text.match(/<label>\s*(\S+)/): null (here <<>> with matched FALSE), or the
\* capture of the leftmost match, the longest run of characters that are not
\* white space.
Match(label, text) ==
  IF MatchStarts(label, text) = {}
    THEN [matched |-> FALSE, capture |-> <<>>]
    ELSE LET k == CHOOSE a \in MatchStarts(label, text) :
                    \A b \in MatchStarts(label, text) : a <= b
             j == CHOOSE a \in (k + 1)..Len(text) :
                    /\ ~IsSpace(text[a])
                    /\ \A m \in (k + 1)..(a - 1) : IsSpace(text[m])
             last == CHOOSE a \in j..Len(text) :
                       /\ \A m \in j..a : ~IsSpace(text[m])
                       /\ a = Len(text) \/ IsSpace(text[a + 1])
         IN  [matched |-> TRUE, capture |-> SubSeq(text, j, last)]

\* The body of every settling branch, and what startTunnel does when its await
\* returns: on resolve child.unref() and the state file is written, on reject the
\* step is marked failed.
Settle(w, kind, why, timer) ==
  [w EXCEPT !.resolved = TRUE, !.timeout = timer,
            !.settled = Append(@, [kind |-> kind, why |-> why,
                                   tunnelUrl |-> Match(UrlLabel, w.stdout).capture,
                                   tunnelId |-> Match(IdLabel, w.stdout).capture])]

AfterAwait(wr, w) ==
  IF Len(w.settled) = 0 \/ wr.main # "waiting" THEN wr
  ELSE IF w.settled[1].kind = "resolve"
    THEN [wr EXCEPT !.main = "saved", !.stateFile = TRUE]
    ELSE [wr EXCEPT !.main = "failed"]

\* A data listener that resolves whenever both patterns match.
shouldResolveAgain(w) ==
  Match(UrlLabel, w.stdout).matched /\ Match(IdLabel, w.stdout).matched

\* if (urlMatch && idMatch && !resolved)
shouldResolve(w) ==
  Match(UrlLabel, w.stdout).matched /\ Match(IdLabel, w.stdout).matched /\ ~w.resolved

\* startTunnel up to its await: the port is validated, the CLI is spawned detached
\* and waitForTunnelReady arms its timer and installs its listeners.
StartTunnel ==
  /\ wrapper.main = "idle"
  /\ \E portValid \in BOOLEAN, spawned \in BOOLEAN :
       IF ~portValid
         THEN /\ wrapper' = [wrapper EXCEPT !.main = "failed"]
              /\ UNCHANGED <<child, wait>>
         ELSE /\ child' = [child EXCEPT !.spawned = spawned, !.alive = spawned]
              /\ wait' = [wait EXCEPT !.timeout = "armed"]
              /\ wrapper' = [wrapper EXCEPT !.main = "waiting"]
  /\ UNCHANGED tunnelSide

\* The 30-second timer fires (a cleared timer never does).
ReadyTimeout ==
  /\ wait.timeout = "armed"
  /\ LET w == IF ~wait.resolved
                THEN Settle(wait, "reject", "timeout", "fired")
                ELSE [wait EXCEPT !.timeout = "fired"]
     IN  /\ wait' = w
         /\ child' = IF ~wait.resolved THEN [child EXCEPT !.kills = @ + 1] ELSE child
         /\ wrapper' = AfterAwait(wrapper, w)
  /\ UNCHANGED tunnelSide

\* child.stdout.on("data").
StdoutData ==
  /\ wrapper.main # "idle"
  /\ child.spawned
  /\ wait.chunks < MaxStdoutChunks
  /\ \E chunk \in StdoutChunks :
       LET w1 == [wait EXCEPT !.stdout = @ \o chunk, !.chunks = @ + 1]
           w == IF shouldResolve(w1) THEN Settle(w1, "resolve", "ready", "cleared")
                ELSE w1
       IN  /\ wait' = w
           /\ wrapper' = AfterAwait(wrapper, w)
  /\ UNCHANGED <<tunnelSide, child>>

\* child.stderr.on("data").
StderrData ==
  /\ wrapper.main # "idle"
  /\ child.spawned
  /\ wait.stderr < MaxStderrChunks
  /\ wait' = [wait EXCEPT !.stderr = @ + 1]
  /\ UNCHANGED <<tunnelSide, child, wrapper>>

\* child.on("error"): the process could not be spawned, or could not be killed.
ChildError ==
  /\ wrapper.main # "idle"
  /\ child.errorEvents = 0
  /\ ~child.spawned \/ child.kills > 0
  /\ LET w == IF ~wait.resolved THEN Settle(wait, "reject", "error", "cleared") ELSE wait
     IN  /\ wait' = w
         /\ wrapper' = AfterAwait(wrapper, w)
  /\ child' = [child EXCEPT !.errorEvents = @ + 1]
  /\ UNCHANGED tunnelSide

\* child.on("exit"); after an `error` the runtime may or may not emit it.
ChildExit ==
  /\ wrapper.main # "idle"
  /\ wait.timeout # "none"
  /\ child.exitEvents = 0
  /\ ~child.alive
  /\ LET w == IF ~wait.resolved THEN Settle(wait, "reject", "exit", "cleared") ELSE wait
     IN  /\ wait' = w
         /\ wrapper' = AfterAwait(wrapper, w)
  /\ child' = [child EXCEPT !.exitEvents = @ + 1]
  /\ UNCHANGED tunnelSide

\* The tunnel process ends, of its own accord or on a signal it does not ignore.
ProcessExits ==
  /\ child.alive
  /\ child' = [child EXCEPT !.alive = FALSE]
  /\ UNCHANGED <<tunnelSide, wait, wrapper>>

\* ---------------------------------------------------------------- CI wrapper: cleanup
\* A cleanup that leaves the state file when the process was found gone.
CleanupFinishKeepingFile(wr, message) ==
  [wr EXCEPT !.log = Append(@, message), !.cleanup = "done",
             !.stateFile = (message = "already exited")]

\* The end of cleanup's try block: the message of the branch taken, then
\* fs.unlinkSync(STATE_FILE).
CleanupFinish(wr, message) ==
  [wr EXCEPT !.log = Append(@, message), !.cleanup = "done", !.stateFile = FALSE]

\* process.kill(pid, signal) throws when no such process exists.
KillThrows == ~child.alive

\* cleanup() of the post step, up to its first signal: existsSync, the state is
\* read, and process.kill(pid, 0) probes the process.
CleanupStart ==
  /\ wrapper.main \in {"saved", "failed"}
  /\ wrapper.cleanup = "idle"
  /\ wrapper' =
       IF ~wrapper.stateFile
         THEN [wrapper EXCEPT !.log = Append(@, "nothing to clean up"),
                              !.cleanup = "done"]
       ELSE IF KillThrows THEN CleanupFinish(wrapper, "already exited")
       ELSE [wrapper EXCEPT !.cleanup = "term"]
  /\ UNCHANGED <<tunnelSide, child, wait>>

\* process.kill(pid, "SIGTERM"), then the sleep begins.
CleanupTerm ==
  /\ wrapper.cleanup = "term"
  /\ IF KillThrows
       THEN /\ wrapper' = CleanupFinish(wrapper, "already exited")
            /\ UNCHANGED child
       ELSE /\ wrapper' = [wrapper EXCEPT !.cleanup = "sleep"]
            /\ child' = [child EXCEPT !.signals = Append(@, "SIGTERM")]
  /\ UNCHANGED <<tunnelSide, wait>>

\* The sleep is over: process.kill(pid, 0) probes again.
CleanupWake ==
  /\ wrapper.cleanup = "sleep"
  /\ wrapper' =
       IF KillThrows THEN CleanupFinish(wrapper, "stopped")
       ELSE [wrapper EXCEPT !.log = Append(@, "still running"), !.cleanup = "kill"]
  /\ UNCHANGED <<tunnelSide, child, wait>>

\* process.kill(pid, "SIGKILL"); a throw is swallowed by the inner catch.
CleanupKill ==
  /\ wrapper.cleanup = "kill"
  /\ child' =
       IF KillThrows THEN child
       ELSE [child EXCEPT !.signals = Append(@, "SIGKILL"), !.alive = FALSE]
  /\ wrapper' = CleanupFinish(wrapper, "stopped")
  /\ UNCHANGED <<tunnelSide, wait>>

\* ---------------------------------------------------------------- specification
Lifecycle ==
  \/ OpenStart
  \/ ProbeDone
  \/ AllocDone
  \/ HandshakeOpen
  \/ HandshakeError
  \/ CallClose
  \/ ChannelError
  \/ ChannelClose
  \/ ControlFrame

\* The tunnel's life: open(), close(), the channels' listeners, request dispatch.
Next == Lifecycle \/ VirtualRequest

Spec == Init /\ [][Next]_vars

\* The forwarders: a tunnel that opens, and every callback of the exchanges it
\* dispatches.
NextForward ==
  \/ OpenStart
  \/ ProbeDone
  \/ AllocDone
  \/ HandshakeOpen
  \/ HandshakeError
  \/ VirtualRequest
  \/ Forwarding

SpecForward == Init /\ [][NextForward]_vars

\* The control frames: a tunnel that opens and is closed, and every frame its
\* channels may be handed, each kept with the path the listener took.
NextFrames ==
  \/ OpenStart
  \/ ProbeDone
  \/ AllocDone
  \/ HandshakeOpen
  \/ HandshakeError
  \/ CallClose
  \/ ObservedFrame

SpecFrames == Init /\ [][NextFrames]_vars

\* The CI wrapper: the main step that spawns the CLI and waits for it, the process
\* itself, and the post step's cleanup.
NextWrapper ==
  \/ StartTunnel
  \/ ReadyTimeout
  \/ StdoutData
  \/ StderrData
  \/ ChildError
  \/ ChildExit
  \/ ProcessExits
  \/ CleanupStart
  \/ CleanupTerm
  \/ CleanupWake
  \/ CleanupKill

SpecWrapper == Init /\ [][NextWrapper]_vars

\* Allocation alone: every API port, and every status, body and URL of the response.
InitAlloc == InitState(MaxCpus, ApiPorts)

NextAlloc ==
  \/ OpenStart
  \/ ProbeDone
  \/ AllocAny
  \/ HandshakeOpen
  \/ HandshakeError

SpecAlloc == InitAlloc /\ [][NextAlloc]_vars

\* A tunnel whose owner calls open() more than once, and close().
NextReopen ==
  \/ OpenStart
  \/ OpenAgain
  \/ ProbeDone
  \/ AllocDone
  \/ HandshakeOpen
  \/ HandshakeError
  \/ CallClose
  \/ ChannelError
  \/ ChannelClose

SpecReopen == Init /\ [][NextReopen]_vars

\* Pool setup alone, on machines of every parallelism up to MaxCpusPool.
InitPool == InitWith(MaxCpusPool)

NextPool ==
  \/ OpenStart
  \/ ProbeDone
  \/ AllocDone
  \/ HandshakeOpen
  \/ HandshakeError

SpecPool == InitPool /\ [][NextPool]_vars

\* One bridged WebSocket exchange on a tunnel that opens. The runtime completes what
\* it has begun: a connecting local WebSocket that does not fail opens, and a closing
\* one reaches CLOSED (ws ends the closing handshake after its close timeout).
NextBridge ==
  \/ OpenStart
  \/ ProbeDone
  \/ AllocDone
  \/ HandshakeOpen
  \/ HandshakeError
  \/ UpgradeRequest
  \/ LocalWsOpen
  \/ LocalWsError
  \/ VirtualData
  \/ VirtualEnd
  \/ VirtualReset
  \/ LocalMessage
  \/ LocalWsClose
  \/ LocalWsClosed

\* Header translation and dispatch: one request with any header combination and
\* the local response to it, on a tunnel that opens.
NextHeaders ==
  \/ OpenStart
  \/ ProbeDone
  \/ AllocDone
  \/ HandshakeOpen
  \/ HandshakeError
  \/ AnyRequest
  \/ LocalResponseAny

SpecHeaders == Init /\ [][NextHeaders]_vars

SpecBridge ==
  Init /\ [][NextBridge]_vars /\ WF_vars(LocalWsOpen) /\ WF_vars(LocalWsClosed)

\* ================================================================ claims
CloseRuns == closeCalls.caller + closeCalls.frame

\* C1: for any number k >= 1 of close() invocations, whatever their triggers, the
\* `close` event has been emitted exactly once in total.
C1_CloseEmittedOnce == CloseRuns >= 1 => emitted.close = 1

\* C2: however many tunnel_done text frames the channels deliver, the tunnel emits at
\* most one `tunnel_done` event and the frames run close() at most once; if a frame
\* reached the tunnel before it was closed, there is exactly one event, it carries
\* the data of the first such frame, and close() ran exactly once for the frames.
C2_TunnelDoneOnce ==
  /\ emitted.tunnel_done = Len(donePayloads)
  /\ closeCalls.frame = emitted.tunnel_done
  /\ IF frames.first # ""
       THEN donePayloads = <<frames.first>>
       ELSE donePayloads = <<>>

\* C2 witness: a second tunnel_done frame has arrived and only one event was emitted.
C2_Witness == frames.done = 2 /\ emitted.tunnel_done = 1 /\ closeCalls.frame = 1

\* C3: once the tunnel is closed, no virtual request is dispatched and no `request`
\* event is emitted.
C3_NoDispatchAfterClose ==
  [][closed => (emitted'.request = emitted.request /\ exch' = exch)]_vars

\* C4: when a channel's handshake fails, open() rejects with an error naming
\* remoteHost:remotePort, no handler exists, and no channel is left OPEN.
C4_PoolUndoneOnFailure ==
  (pc = "rejected" /\ steps = <<"probe", "alloc", "pool">>) =>
    /\ rejection.host = opts.serverHost
    /\ rejection.port = opts.serverPort
    /\ handlers = <<>>
    /\ \A c \in DOMAIN ws : ws[c].state # "OPEN"

OpenOrder == <<"probe", "alloc", "pool", "open">>

IsPrefix(s, t) == Len(s) <= Len(t) /\ \A k \in 1..Len(s) : s[k] = t[k]

\* C5: open() starts its steps in the order probe, allocation, pool setup, `open`;
\* when a step fails no later step has started (no allocation result after a failed
\* probe, no channel after a failed allocation, no handler after a failed
\* handshake), `error` was emitted carrying the failure, the promise rejects with
\* it, and `open` is not emitted.
C5_OpenAbortsOnFailure ==
  /\ IsPrefix(steps, OpenOrder)
  /\ pc = "probe" => steps = <<"probe">>
  /\ pc = "alloc" => steps = <<"probe", "alloc">>
  /\ pc = "handshake" => steps = <<"probe", "alloc", "pool">>
  /\ pc = "resolved" <=> steps = OpenOrder
  /\ emitted.open = IF pc = "resolved" THEN 1 ELSE 0
  /\ pc # "rejected" => rejection = NoError /\ callError = NoError
  /\ pc = "rejected" =>
       /\ rejection # NoError
       /\ callError = rejection
       /\ emitted.error >= 1
       /\ handlers = <<>>
       /\ Len(steps) = 1 => tunnelInfo = NoInfo /\ ws = <<>>
       /\ Len(steps) = 2 => tunnelInfo = NoInfo /\ ws = <<>>
       /\ Len(steps) = 3 => tunnelInfo # NoInfo /\ ws # <<>>

\* C5 witness: the handshake failed after probe and allocation succeeded.
C5_Witness ==
  /\ pc = "rejected"
  /\ steps = <<"probe", "alloc", "pool">>
  /\ rejection.kind = "WebSocket connection failed"

\* C6: once close() has returned, the handler is stopped, no channel is OPEN or
\* CONNECTING, the channel set is empty and no channel was closed twice.
C6_TeardownReleasesAll ==
  CloseRuns >= 1 =>
    /\ h2Handler = 0
    /\ \A h \in DOMAIN handlers : handlers[h].state # "listening"
    /\ \A c \in DOMAIN ws : ws[c].state \notin {"OPEN", "CONNECTING"}
    /\ wsConnections = <<>>
    /\ \A c \in DOMAIN ws : ws[c].closeCalls <= 1

\* C7: when setup completes the pool has opened min(parallelism, 16) channels, the
\* handler is bound to exactly those streams, and parallelism 1, 4, 32 gives
\* 1, 4, 16 channels.
C7_PoolSize ==
  pc = "resolved" =>
    /\ Len(ws) = (IF cpus < 16 THEN cpus ELSE 16)
    /\ \A c \in DOMAIN ws : ws[c].state = "OPEN"
    /\ streams = [k \in 1..Len(ws) |-> k]
    /\ handlers[h2Handler].streams = streams
    /\ cpus = 1 => Len(ws) = 1
    /\ cpus = 4 => Len(ws) = 4
    /\ cpus = 32 => Len(ws) = 16

\* C7 witness: a machine of parallelism 32 has its pool of 16 channels.
C7_Witness == cpus = 32 /\ pc = "resolved" /\ Len(wsConnections) = 16

IsLocalCall(step) == step.op \in {"http request", "new WebSocket"}

\* C8: every virtual request has its `request{method, path}` event emitted exactly
\* once, before the local HTTP request or local WebSocket of that request starts.
C8_RequestEventFirst ==
  /\ emitted.request = Len(exch)
  /\ \A e \in DOMAIN exch :
       LET t == exch[e].trace
       IN  /\ Cardinality({k \in DOMAIN t : t[k].op = "emit request"}) = 1
           /\ \A k \in DOMAIN t :
                /\ t[k].method = exch[e].req.method
                /\ t[k].path = exch[e].req.url
                /\ IsLocalCall(t[k]) =>
                     \E j \in 1..(k - 1) : t[j].op = "emit request"

\* C8 witness: GET /foo?x=1 was dispatched to the HTTP forwarder.
C8_Witness ==
  \E e \in DOMAIN exch :
    /\ exch[e].req.url = "/foo?x=1"
    /\ \E k \in DOMAIN exch[e].trace : exch[e].trace[k].op = "http request"

\* C9: a failure callback of one exchange (each logs one error) leaves the session
\* state, the tunnel's `error` and `close` events, the channels, the handler and
\* every other exchange as they were.
C9_FailureStaysLocal ==
  [][\A e \in DOMAIN exch :
       exch'[e].logged > exch[e].logged =>
         /\ closed' = closed
         /\ h2Handler' = h2Handler
         /\ wsConnections' = wsConnections
         /\ emitted' = emitted
         /\ ws' = ws
         /\ handlers' = handlers
         /\ \A f \in DOMAIN exch \ {e} : exch'[f] = exch[f]]_vars

\* C9 witness: one exchange has failed, another opened after it is being answered,
\* and the tunnel is open with nothing emitted but `open` and the two requests.
C9_Witness ==
  /\ Len(exch) = 2
  /\ exch[1].logged > 0
  /\ exch[1].res.heads = <<502>>
  /\ exch[2].logged = 0
  /\ exch[2].resPipe = "running"
  /\ ~closed
  /\ emitted.error = 0

\* C10: in the HTTP forwarder a failure before the headers were sent writes status
\* 502, and a failure after they were sent writes no status and no body bytes.
C10_FailureAfterHeadersIsSilent ==
  [][\A e \in DOMAIN exch :
       (exch[e].kind = "http" /\ exch'[e].logged > exch[e].logged) =>
         IF headersSent(exch[e].res)
           THEN /\ exch'[e].res.heads = exch[e].res.heads
                /\ exch'[e].res.body = exch[e].res.body
           ELSE exch'[e].res.heads = <<502>>]_vars

\* C11: on a bridged WebSocket exchange the frames sent to the local WebSocket are
\* the chunks the virtual stream delivered, unmodified and in order, and the chunks
\* written to the virtual stream are the messages the local WebSocket delivered,
\* unmodified and in order: nothing is duplicated, reordered or added, the two
\* sequences are equal while the side they go to is up, and only chunks that arrive
\* for a side that is gone are left out.
C11_BridgeRelaysInOrder ==
  \A e \in DOMAIN exch :
    exch[e].bridged =>
      /\ IsPrefix(exch[e].toLocal, exch[e].inbound)
      /\ IsPrefix(exch[e].res.body, exch[e].fromLocal)
      /\ exch[e].localWs = "OPEN" => exch[e].toLocal = exch[e].inbound
      /\ (~exch[e].res.ended /\ ~resClosed(exch[e])) =>
           exch[e].res.body = exch[e].fromLocal

\* C12: on a bridged WebSocket exchange, whenever the virtual stream has ended or is
\* closed the local WebSocket is eventually closing or closed, and whenever the
\* local WebSocket is closed the virtual stream is eventually ended or gone.
C12_CloseCrosses ==
  /\ (\E e \in DOMAIN exch : exch[e].kind = "ws" /\ exch[e].virt # "open")
       ~> (\A e \in DOMAIN exch : exch[e].localWs \in {"CLOSING", "CLOSED"})
  /\ (\E e \in DOMAIN exch : exch[e].kind = "ws" /\ exch[e].localWs = "CLOSED")
       ~> (\A e \in DOMAIN exch : exch[e].res.ended \/ resClosed(exch[e]))

\* C13: the headers passed to the local server and the headers written back to the
\* virtual response never contain a hop-by-hop header; of a request's headers the
\* HTTP forwarder also drops the pseudo-headers (":"), host and upgrade; every other
\* header, of the request and of the local response, is relayed with its value.
C13_HeadersFiltered ==
  \A e \in DOMAIN exch :
    LET x == exch[e]
        hop == {"connection", "keep-alive", "proxy-authenticate",
                "proxy-authorization", "te", "trailers", "transfer-encoding"}
        dropped == hop \cup {":method", ":path", ":scheme", ":authority", "host",
                             "upgrade"}
    IN  /\ DOMAIN x.forwarded \cap hop = {}
        /\ DOMAIN x.relayed \cap hop = {}
        /\ x.kind = "http" =>
             /\ DOMAIN x.forwarded = DOMAIN x.req.headers \ dropped
             /\ \A key \in DOMAIN x.forwarded : x.forwarded[key] = x.req.headers[key]
        /\ x.clientReq = "responded" =>
             /\ DOMAIN x.relayed = DOMAIN x.clientRes \ hop
             /\ \A key \in DOMAIN x.relayed : x.relayed[key] = x.clientRes[key]

\* C13 witness: a request carrying te and accept was forwarded with accept alone,
\* and a response carrying connection and set-cookie was relayed with set-cookie.
C13_Witness ==
  \E e \in DOMAIN exch :
    /\ DOMAIN exch[e].req.headers = {":method", ":path", "te", "accept"}
    /\ DOMAIN exch[e].forwarded = {"accept"}
    /\ DOMAIN exch[e].clientRes = {"connection", "set-cookie"}
    /\ DOMAIN exch[e].relayed = {"set-cookie"}

\* C18: every request is dispatched to exactly one forwarder: the WebSocket bridge
\* if it carries the header upgrade: websocket, the HTTP forwarder otherwise.
C18_OneForwarder ==
  \A e \in DOMAIN exch :
    LET x == exch[e]
        t == x.trace
        local == {k \in DOMAIN t : IsLocalCall(t[k])}
        upgrades == /\ "upgrade" \in DOMAIN x.req.headers
                    /\ x.req.headers["upgrade"] = "websocket"
    IN  /\ Cardinality(local) = 1
        /\ \A k \in local :
             t[k].op = IF upgrades THEN "new WebSocket" ELSE "http request"
        /\ IF upgrades
             THEN x.kind = "ws" /\ x.localWs # "none" /\ x.clientReq = "none"
             ELSE x.kind = "http" /\ x.localWs = "none" /\ x.clientReq # "none"

\* C18 witness: a request with upgrade: h2c went to the HTTP forwarder.
C18_Witness ==
  \E e \in DOMAIN exch :
    /\ exch[e].req.upgrade = "h2c"
    /\ exch[e].kind = "http"
    /\ \E k \in DOMAIN exch[e].trace : exch[e].trace[k].op = "http request"

AllocFailed == pc = "rejected" /\ steps = <<"probe", "alloc">>

AllocSucceeded == \E k \in DOMAIN steps : steps[k] = "pool"

\* A text in which no tag is left and no two whitespace characters are adjacent.
IsPlain(t) ==
  /\ \A p \in DOMAIN t, q \in DOMAIN t :
       ~(t[p] = "<" /\ t[q] = ">" /\ p + 2 <= q
           /\ \A r \in (p + 1)..(q - 1) : t[r] # ">")
  /\ \A k \in 1..(Len(t) - 1) : ~(t[k] \in {" ", "\n", "\t"} /\ t[k + 1] = t[k])

\* C14: an allocation response with status 502, 503 or 504 is reported as
\* temporarily unavailable with that status, 401 or 403 as an authentication
\* failure, 429 as rate limited, any other status outside 2xx as a generic failure
\* quoting at most 120 characters of the body with tags stripped and whitespace
\* collapsed; every 2xx status with a parseable body produces a TunnelInfo.
C14_StatusClasses ==
  allocResponse.net = "ok" =>
    LET status == allocResponse.status
        body == allocResponse.body
    IN  /\ status \in {502, 503, 504} =>
             /\ AllocFailed
             /\ rejection.kind = "Tunnel server is temporarily unavailable"
             /\ rejection.status = status
        /\ status \in {401, 403} =>
             AllocFailed /\ rejection.kind = "Authentication failed"
        /\ status = 429 =>
             AllocFailed /\ rejection.kind = "Rate limited by tunnel server"
        /\ (status \notin {502, 503, 504, 401, 403, 429} /\ status \notin 200..299) =>
             /\ AllocFailed
             /\ rejection.kind = "HTTP"
             /\ rejection.status = status
             /\ Len(rejection.detail) <= 120
             /\ IsPlain(rejection.detail)
        /\ (status \in 200..299 /\ body.json /\ body.url.valid) =>
             /\ AllocSucceeded
             /\ tunnelInfo.id = body.tunnel_id

\* The port a URL designates: its explicit port, or the default of its scheme.
EffectivePort(u) ==
  IF u.port # "" THEN u.port
  ELSE IF u.protocol = "https:" THEN "443" ELSE "80"

\* C17: an allocation reached over HTTPS returns a URL whose scheme is https and
\* whose explicit port 80 is removed (http://x.example/ becomes https://x.example/);
\* an allocation reached over HTTP returns the response URL with its scheme and
\* the port it designates unchanged. The host is the response's in both cases.
C17_UrlNormalised ==
  AllocSucceeded =>
    LET raw == allocResponse.body.url
        u == tunnelInfo.url
    IN  /\ u.hostname = raw.hostname
        /\ IF apiPort = 443
             THEN /\ u.protocol = "https:"
                  /\ u.port # "80"
                  /\ raw.port \notin {"", "80", "443"} => u.port = raw.port
                  /\ (raw.protocol = "http:" /\ raw.port = "") => u.port = ""
             ELSE /\ u.protocol = raw.protocol
                  /\ EffectivePort(u) = EffectivePort(raw)

\* C17 witness: over HTTPS, https://x.example:80/ came back as https://x.example/.
C17_Witness ==
  /\ AllocSucceeded
  /\ apiPort = 443
  /\ allocResponse.body.url.protocol = "https:"
  /\ allocResponse.body.url.port = "80"
  /\ tunnelInfo.url = [protocol |-> "https:", hostname |-> "x.example", port |-> ""]

\* C15: once tunnelInfo, url and tunnelId have been set from an allocation response,
\* no later step (a further open(), a failed setup, close()) replaces or changes
\* them.
C15_TunnelInfoSetOnce ==
  [][tunnelInfo # NoInfo =>
       (tunnelInfo' = tunnelInfo /\ url' = url /\ tunnelId' = tunnelId)]_vars

\* C16: once connectToServer has opened its N channels and returned, no step (a
\* channel error, a channel close, another open()) creates a channel or changes
\* the streams a handler is bound to, and the channel collection changes only by
\* an append during setup or by being cleared in close().
C16_PoolFixed ==
  [][/\ emitted.open >= 1 =>
          /\ Len(ws') = Len(ws)
          /\ wsConnections' = wsConnections \/ wsConnections' = <<>>
          /\ \A h \in DOMAIN handlers : handlers'[h].streams = handlers[h].streams
          /\ h2Handler' \in {h2Handler, 0}
     /\ wsConnections' # wsConnections =>
          \/ wsConnections' = <<>>
          \/ pc = "handshake" /\ \E c \in DOMAIN ws :
                                   wsConnections' = Append(wsConnections, c)]_vars

\* The lifecycle state of a channel: a channel that is closing has left Open.
Phase(state) ==
  CASE state = "CONNECTING" -> "Connecting"
    [] state = "OPEN" -> "Open"
    [] OTHER -> "Closed"

\* What every step does to the channels, with `failing` the channels allowed to go
\* from Connecting to Closed: a channel is created Connecting, changes phase only
\* from Connecting to Open and from Open to Closed otherwise, and ws.close() is
\* called on it by the client at most once, and never after an error or close
\* event on it.
ChannelSteps(failing) ==
  \A c \in DOMAIN ws' :
    IF c \notin DOMAIN ws
      THEN ws'[c].state = "CONNECTING" /\ ws'[c].closeCalls = 0
      ELSE /\ \/ Phase(ws'[c].state) = Phase(ws[c].state)
              \/ Phase(ws[c].state) = "Connecting" /\ Phase(ws'[c].state) = "Open"
              \/ Phase(ws[c].state) = "Open" /\ Phase(ws'[c].state) = "Closed"
              \/ /\ c \in failing
                 /\ Phase(ws[c].state) = "Connecting"
                 /\ Phase(ws'[c].state) = "Closed"
           /\ ws'[c].closeCalls >= ws[c].closeCalls
           /\ ws'[c].closeCalls > ws[c].closeCalls =>
                /\ ws[c].closeCalls = 0
                /\ ~ws[c].dropped
                /\ ws[c].state \in {"OPEN", "CONNECTING"}

\* C19 as stated: every channel follows Connecting -> Open -> Closed with no other
\* transition, and the client closes each channel at most once, either after an
\* error on it or in Tunnel.close(), never both.
C19_LifecycleStrict == [][ChannelSteps({})]_vars

\* C19: every channel follows Connecting -> Open -> Closed, except that the channel
\* whose handshake fails goes from Connecting to Closed as open() rejects; there is
\* no other transition, and the client closes each channel at most once, either
\* after an error on it or in Tunnel.close(), never both.
C19_Lifecycle ==
  [][ChannelSteps(IF pc = "handshake" /\ pc' = "rejected" THEN {Len(ws)} ELSE {})]_vars

\* C19 witness: one channel had an error and closed without the client closing it,
\* the other was closed, once, by Tunnel.close().
C19_Witness ==
  /\ Len(ws) = 2
  /\ CloseRuns >= 1
  /\ ws[1].dropped /\ ws[1].closeCalls = 0 /\ ws[1].state = "CLOSED"
  /\ ~ws[2].dropped /\ ws[2].closeCalls = 1 /\ ws[2].state = "CLOSING"

\* C20: an error received on a pooled channel after its handshake emits one
\* tunnel-level `error` if the tunnel is not closed and none if it is; it leaves
\* the session state, the other channels, the handler and `close` as they were.
C20_ChannelErrorContained ==
  [][\A c \in DOMAIN ws :
       (ws[c].state = "OPEN" /\ ws'[c].state = "CLOSING" /\ ws'[c].dropped) =>
         /\ emitted'.error = emitted.error + (IF closed THEN 0 ELSE 1)
         /\ emitted'.close = emitted.close
         /\ emitted'.open = emitted.open
         /\ emitted'.tunnel_done = emitted.tunnel_done
         /\ closed' = closed
         /\ h2Handler' = h2Handler
         /\ wsConnections' = wsConnections
         /\ tunnelInfo' = tunnelInfo
         /\ handlers' = handlers
         /\ \A d \in DOMAIN ws \ {c} : ws'[d] = ws[d]]_vars

\* C20 witness: an error arrived on a channel of a tunnel already closed, and no
\* `error` event was emitted.
C20_Witness ==
  /\ closed
  /\ emitted.error = 0
  /\ \E c \in DOMAIN ws : ws[c].state = "CLOSING" /\ ws[c].dropped

\* C21: a close of one pooled channel that the tunnel did not ask for is only
\* logged: the step emits no event, leaves the session state, the handler and the
\* channel collection as they were, and closes or removes no other channel.
C21_ChannelCloseOnlyLogged ==
  [][\A c \in DOMAIN ws :
       (ws[c].state \in {"OPEN", "CLOSING"} /\ ws'[c].state = "CLOSED") =>
         /\ ws'[c].logged = ~closed
         /\ emitted' = emitted
         /\ closed' = closed
         /\ h2Handler' = h2Handler
         /\ handlers' = handlers
         /\ wsConnections' = wsConnections
         /\ tunnelInfo' = tunnelInfo
         /\ \A d \in DOMAIN ws \ {c} : ws'[d] = ws[d]]_vars

\* C21 witness: on an open tunnel of two channels one channel closed and was logged,
\* the other is still OPEN and in the collection, and nothing but `open` was emitted.
C21_Witness ==
  /\ Len(ws) = 2
  /\ ~closed
  /\ \E c \in DOMAIN ws : ws[c].state = "CLOSED" /\ ws[c].logged
  /\ \E d \in DOMAIN ws : ws[d].state = "OPEN"
  /\ Len(wsConnections) = 2
  /\ emitted = [NoEvents EXCEPT !.open = 1]

\* C22: a frame that is binary, or a text frame that is not a tunnel_done payload
\* (not JSON, JSON null, or JSON of another type), is ignored: the listener returns
\* or ends in its catch clause, nothing is emitted, the session state, the handler
\* and the channels stay as they were, and a binary frame never reaches the parser.
C22_OtherFramesIgnored ==
  [][(lastFrame' # lastFrame
        /\ (lastFrame'.isBinary \/ DoneData(lastFrame'.text) = "")) =>
       /\ lastFrame'.outcome \in {"skipped", "caught", "ignored"}
       /\ lastFrame'.isBinary => lastFrame'.outcome = "skipped"
       /\ UNCHANGED <<emitted, closed, h2Handler, handlers, ws, wsConnections,
                      tunnelInfo, url, tunnelId, donePayloads, closeCalls>>]_vars

\* C22 witness: an open tunnel was handed a text frame that parsed to a payload of
\* another type, and is still open with its handler and no event but `open`.
C22_Witness ==
  /\ lastFrame = [isBinary |-> FALSE, text |-> "other", outcome |-> "ignored"]
  /\ ~closed
  /\ h2Handler # 0
  /\ emitted = [NoEvents EXCEPT !.open = 1]

\* Bytes of the bridge are on the move in exchange x: a chunk of the virtual stream
\* was sent to the local WebSocket, or a local message was written to the response.
BridgeForwarded(x) ==
  \/ x.toLocal # <<>>
  \/ \E k \in DOMAIN x.res.body, data \in LocalMessages : x.res.body[k] = data.bytes

\* C23: in the WebSocket bridge, status 200 is written only by the step in which
\* the local WebSocket opens, as the first status and before any byte is forwarded
\* in either direction; an error of the local WebSocket writes 502 exactly when the
\* headers are unsent, and an exchange whose local WebSocket failed to open never
\* gets a 200.
C23_BridgeStatusOrder ==
  [][\A e \in DOMAIN exch' :
       LET new == exch'[e]
           old == IF e \in DOMAIN exch THEN exch[e] ELSE NewExchange(new.req)
           wrote(status) ==
             status \in Range(new.res.heads) /\ status \notin Range(old.res.heads)
       IN  new.kind = "ws" =>
             /\ wrote(200) =>
                  /\ old.localWs = "CONNECTING" /\ new.localWs = "OPEN"
                  /\ new.res.heads = <<200>>
                  /\ ~BridgeForwarded(new)
             /\ BridgeForwarded(new) => new.res.heads = <<200>>
             /\ 200 \in Range(new.res.heads) => new.bridged
             /\ (old.localWs \in {"CONNECTING", "OPEN"} /\ new.localWs = "CLOSING"
                   /\ new.logged > old.logged) =>
                  new.res.heads = IF old.res.heads = <<>> THEN <<502>> ELSE old.res.heads
             /\ (new.localWs = "OPEN" /\ old.localWs # "OPEN") =>
                  old.localWs = "CONNECTING"
             /\ 502 \in Range(old.res.heads) => new.res.heads = old.res.heads]_vars

\* C23 witness: a bridge whose local WebSocket opened carries bytes both ways under
\* the single status 200.
C23_Witness ==
  \E e \in DOMAIN exch :
    /\ exch[e].kind = "ws"
    /\ exch[e].res.heads = <<200>>
    /\ exch[e].toLocal # <<>>
    /\ \E k \in DOMAIN exch[e].res.body : exch[e].res.body[k] = "a"

Connecting == {c \in DOMAIN ws : ws[c].state = "CONNECTING"}

\* C24: the handshakes of the pool run one at a time and the handler comes last: a
\* channel after the first is created by the step in which its predecessor opens
\* (every earlier handshake having succeeded), at most one channel is CONNECTING at
\* any moment, the handler is constructed by the step in which the last of the
\* numConnections handshakes succeeds, and a virtual request is accepted only by a
\* handler already constructed.
C24_HandshakesInTurn ==
  [][/\ Cardinality(Connecting) <= 1
     /\ Cardinality(Connecting)' <= 1
     /\ Len(ws') > Len(ws) =>
          /\ Len(ws') = Len(ws) + 1
          /\ Connecting = IF i' = 0 THEN {} ELSE {Len(ws)}
          /\ Connecting' = {Len(ws')}
          /\ i' > 0 => ws'[Len(ws)].state = "OPEN"
          /\ \A c \in 1..i' : ws'[Len(ws') - c].listeners
     /\ Len(handlers') > Len(handlers) =>
          /\ handlers = <<>>
          /\ i' = numConnections
          /\ Len(handlers'[1].streams) = numConnections
          /\ \A k \in DOMAIN handlers'[1].streams :
               ws'[handlers'[1].streams[k]].listeners
          /\ ws'[Len(ws')].state = "OPEN"
          /\ Connecting' = {}
     /\ Len(exch') > Len(exch) => handlers # <<>> /\ i = numConnections]_vars

\* C24 witness: on a machine that gives a pool of two, both channels opened in turn,
\* the handler was constructed over both streams and has accepted a request.
C24_Witness ==
  /\ numConnections = 2
  /\ Len(handlers) = 1
  /\ Len(handlers[1].streams) = 2
  /\ \A c \in DOMAIN ws : ws[c].state = "OPEN"
  /\ exch # <<>>

\* C25: on every virtual response the status line is written at most once, in every
\* interleaving of the forwarders' callbacks (local response, local request error,
\* request-pipeline error, response-pipeline error, local WebSocket open and error):
\* no callback invokes writeHead on a response whose headers were already sent.
C25_HeadersWrittenOnce ==
  \A e \in DOMAIN exch : Len(exch[e].res.heads) <= 1 /\ ~exch[e].threw

\* C25 witness: an HTTP exchange whose local response wrote the status, after which
\* the request pipeline, the response pipeline and the local request all failed.
C25_Witness ==
  \E e \in DOMAIN exch :
    /\ exch[e].kind = "http"
    /\ exch[e].res.heads = <<200>>
    /\ exch[e].reqPipe = "failed"
    /\ exch[e].resPipe = "failed"
    /\ exch[e].clientReq = "errored"

\* C26: the tunnel's events respect the lifecycle order in every interleaving of
\* open() with control frames and close() calls: `open` is emitted at most once and
\* only while the tunnel is not closed, and once `close` has been emitted no `open`,
\* no `tunnel_done` and no `error` is emitted but the one of an open() that rejects.
C26_EventsInLifecycleOrder ==
  [][/\ emitted'.open > emitted.open => emitted.open = 0 /\ ~closed
     /\ emitted.close >= 1 =>
          /\ emitted'.open = emitted.open
          /\ emitted'.tunnel_done = emitted.tunnel_done
          /\ emitted'.error > emitted.error => pc # "rejected" /\ pc' = "rejected"]_vars

C28_ReadySettlesOnce ==
  [][/\ Len(wait'.settled) <= 1
     /\ (\/ wait'.timeout = "fired"
         \/ child'.errorEvents > 0
         \/ child'.exitEvents > 0
         \/ (Match(UrlLabel, wait'.stdout).matched
               /\ Match(IdLabel, wait'.stdout).matched)) => Len(wait'.settled) = 1
     /\ (Len(wait'.settled) > Len(wait.settled) /\ wait'.settled[1].kind = "resolve") =>
          /\ Match(UrlLabel, wait'.stdout).matched
          /\ Match(IdLabel, wait'.stdout).matched
          /\ wait'.settled[1].tunnelUrl # <<>>
          /\ wait'.settled[1].tunnelId # <<>>
     /\ child'.kills > child.kills =>
          /\ child.kills = 0
          /\ wait.timeout = "armed" /\ wait'.timeout = "fired"
          /\ wait.settled = <<>>
          /\ wait'.settled[1].kind = "reject" /\ wait'.settled[1].why = "timeout"]_vars

\* C28 witness: the promise resolved on output that came in three chunks, and the
\* child's `exit` was delivered afterwards without settling it again or a kill.
C28_Witness ==
  /\ Len(wait.settled) = 1
  /\ wait.settled[1].kind = "resolve"
  /\ wait.chunks = 3
  /\ wait.timeout = "cleared"
  /\ child.exitEvents = 1
  /\ child.kills = 0

\* C29: in cleanup, SIGKILL is sent only after SIGTERM was sent and the probe after
\* the wait found the process still alive, and cleanup ends with the state file
\* removed whenever it existed: when the process was killed, when it stopped on
\* SIGTERM, and when it had already exited.
C29_CleanupEscalates ==
  [][/\ child'.signals # child.signals /\ child'.signals[Len(child'.signals)] = "SIGKILL" =>
          /\ child.signals = <<"SIGTERM">>
          /\ wrapper.cleanup = "kill"
          /\ wrapper.log[Len(wrapper.log)] = "still running"
     /\ (wrapper'.cleanup = "done" /\ wrapper.cleanup # "done") => ~wrapper'.stateFile
     /\ wrapper'.stateFile # wrapper.stateFile =>
          \/ wrapper'.stateFile /\ wrapper'.main = "saved" /\ wrapper.main = "waiting"
          \/ ~wrapper'.stateFile /\ wrapper'.cleanup = "done"]_vars

\* C29 witness: the process outlived SIGTERM and the wait, was killed, and the
\* state file is gone.
C29_Witness ==
  /\ child.signals = <<"SIGTERM", "SIGKILL">>
  /\ wrapper.cleanup = "done"
  /\ wrapper.main = "saved"
  /\ ~wrapper.stateFile
  /\ ~child.alive

====
